---- MODULE Spec2Model ----
(***************************************************************************)
(* HeliosDB: the replicated state-machine layer.                           *)
(*                                                                         *)
(*   store        internal/store       (src/internal/raft/fsm.go:74-128)   *)
(*   WAL          internal/persistence (src/unnamed/part_002)              *)
(*   FSM          internal/raft        (src/internal/raft/fsm.go:1-73)     *)
(*   transactions internal/transaction (src/internal/server/               *)
(*                                      server_test.go:102-179)            *)
(*   HTTP server  internal/server      (src/unnamed/part_001:1-264)        *)
(*   main         cmd/heliosdb         (src/cmd/heliosdb/main.go)          *)
(*                                                                         *)
(* The consensus module (hashicorp/raft) is an external collaborator: it   *)
(* is modelled as a committed log, raftLog, whose entries are handed to    *)
(* FSM.Apply of every node in log order, one Apply in flight per node.     *)
(***************************************************************************)
EXTENDS Integers, Sequences, FiniteSets, TLC

\* ------------------------------------------------------------------ bounds
\* Longest committed log explored.
MaxLog == 2
\* Longest committed log explored when two replicas run side by side.
MaxReplLog == 2
\* Longest committed log explored on the transaction path, and the most
\* transactions begun there.
MaxTxLog == 2
MaxTx == 1
\* Most entries staged in one transaction's write-set / read-set.
MaxWriteSet == 2
MaxReadSet == 1
\* Most direct calls of the store API in one run.
MaxCalls == 4
\* Longest committed log explored when Apply's fault paths are taken.
MaxFaultLog == 2
\* Longest WAL file handed to Replay directly, and the most boots from one.
MaxReplayLines == 3
MaxBoots == 1
\* Longest committed log and most recorded HTTP replies on the rejection
\* paths of the handlers.
MaxHttpLog == 1
MaxRequests == 1
\* Most transactions begun and most recorded calls when the transaction
\* manager is called directly.
MaxMgrTx == 2
MaxMgrCalls == 4

\* ------------------------------------------------------------------ domains
Nodes == {"n1", "n2"}
Keys == {"a", "b"}
Values == {"v1", "v2"}
\* A value of 64 KiB: longer than one bufio.Scanner token may be.
BigValue == "big"
TxIds == {"t1", "t2"}
\* Versions a client may hand to StageRead.
ReadVersions == {1, 2}

VARIABLES
    raftLog,    \* committed entries (logEntry.Data: a JSON object each)
    applied,    \* per node: entries the consensus module counts as delivered
    pc,         \* per node: where the process is ("idle" = between Applies)
    cur,        \* per node: FSM.Apply's local `cmd`
    store,      \* per node: Store.data
    wal,        \* per node: complete lines of app.wal
    walTorn,    \* per node: app.wal ends with a partial line
    txns,       \* per node: Manager.transactions
    pending,    \* per node: handleTxCommit calls waiting in future.Error()
    usedIds,    \* transaction ids uuid.NewString has returned so far
    leader,     \* the node whose raft.State() is raft.Leader
    calls       \* calls made from outside and HTTP replies, with their results

vars == <<raftLog, applied, pc, cur, store, wal, walTorn, txns, pending,
          usedIds, leader, calls>>

\* ------------------------------------------------------------------ JSON
\* A JSON object is a function from the names of the fields present to
\* their values; a field dropped by `omitempty` is not in the domain.
EmptyObj == [f \in {} |-> ""]

Field(name, present, val) == IF present THEN name :> val ELSE EmptyObj

GetStr(obj, name) == IF name \in DOMAIN obj THEN obj[name] ELSE ""

\* raft.Command, JSON tags op / key / value,omitempty.
NoCmd == [Op |-> "", Key |-> "", Value |-> ""]

RaftMarshal(cmd) ==
    ("op" :> cmd.Op) @@ ("key" :> cmd.Key)
        @@ Field("value", cmd.Value # "", cmd.Value)

\* json.Unmarshal into a raft.Command: fields it does not declare
\* (write_set) are ignored, fields not present stay at the zero value.
RaftUnmarshal(obj) ==
    [Op |-> GetStr(obj, "op"), Key |-> GetStr(obj, "key"),
     Value |-> GetStr(obj, "value")]

\* server.Command, JSON tags op / key,omitempty / value,omitempty /
\* write_set,omitempty.
ServerCommand(op, key, value, writeSet) ==
    [Op |-> op, Key |-> key, Value |-> value, WriteSet |-> writeSet]

ServerMarshal(cmd) ==
    ("op" :> cmd.Op)
        @@ Field("key", cmd.Key # "", cmd.Key)
        @@ Field("value", cmd.Value # "", cmd.Value)
        @@ Field("write_set", cmd.WriteSet # <<>>, cmd.WriteSet)

\* The write_set of a JSON object ([] when the field is absent), and of a
\* decoded raft.Command, which has no such field.
WriteSetOf(obj) == IF "write_set" \in DOMAIN obj THEN obj["write_set"] ELSE <<>>

\* Bytes that are not a JSON document: the text of an object cut short.  The
\* field Eof stands for the missing end of the text; json.Unmarshal returns
\* an error on such bytes and leaves its target as it was.
Eof == "<eof>"

Truncated(obj) == obj @@ (Eof :> "")

\* Bytes that are not a JSON document either: a whole object with more text
\* after it.  The field More stands for that text; json.Unmarshal returns
\* an error (invalid character after top-level value).
More == "<more>"

ValidJSON(data) == Eof \notin DOMAIN data /\ More \notin DOMAIN data

\* ------------------------------------------------------------------ store
\* Store.data: a Go map, here a function whose domain is the keys present.
NewStore == [k \in {} |-> [Value |-> "", Version |-> 0]]

ZeroValue == [Value |-> "", Version |-> 0]

StoreGet(data, key) ==
    IF key \in DOMAIN data
    THEN [value |-> data[key], ok |-> TRUE]
    ELSE [value |-> ZeroValue, ok |-> FALSE]

\* Mutant: the version is written as 1 instead of current.Version + 1.
StoreSet_NoIncrement(data, key, value) ==
    (key :> [Value |-> value, Version |-> 1]) @@ data

StoreSet(data, key, value) ==
    LET current == StoreGet(data, key).value
    IN  (key :> [Value |-> value, Version |-> current.Version + 1]) @@ data

\* Mutant: a soft delete that blanks the value and keeps the entry.
StoreDelete_Tombstone(data, key) ==
    IF key \in DOMAIN data
    THEN (key :> [Value |-> "", Version |-> data[key].Version]) @@ data
    ELSE data

\* Mutant: Delete empties the map.
StoreDelete_ClearsAll(data, key) == NewStore

StoreDelete(data, key) == [k \in DOMAIN data \ {key} |-> data[k]]

\* ------------------------------------------------------------------ WAL
\* bufio.Scanner's default buffer limit (bufio.MaxScanTokenSize), which
\* Replay's bufio.NewScanner(file) keeps: a longer line ends the scan with
\* bufio.ErrTooLong.
MaxScanTokenSize == 65536

StrLen(s) == IF s = BigValue THEN MaxScanTokenSize ELSE Len(s)

\* Bytes of the line json.Marshal writes for a raft.Command:
\* {"op":"..","key":".."} is 17 bytes around the two strings and
\* ,"value":".." adds 11 around the third.
LineLen(obj) ==
    17 + StrLen(GetStr(obj, "op")) + StrLen(GetStr(obj, "key"))
       + (IF "value" \in DOMAIN obj THEN 11 + StrLen(obj["value"]) ELSE 0)

\* The scanner delivers a line when the line and its newline fit the buffer.
Scannable(obj) == LineLen(obj) + 1 <= MaxScanTokenSize

\* The last line of a file that does not end in a newline.  The field
\* NoNewline marks it; the scanner delivers such a line like any other.
NoNewline == "<no newline>"

Unterminated(line) == line @@ (NoNewline :> "")

Terminated(line) == NoNewline \notin DOMAIN line

\* The text of a line, without its end.
Record(line) == [f \in DOMAIN line \ {NoNewline} |-> line[f]]

\* file.Write on a file opened with O_APPEND: the bytes go after the last
\* byte of the file.  After a last line without newline they continue that
\* line, which then holds two objects and ends in the newline just written.
WalAppend(lines, line) ==
    IF lines # <<>> /\ ~Terminated(lines[Len(lines)])
    THEN [lines EXCEPT ![Len(lines)] = Record(@) @@ (More :> "")]
    ELSE Append(lines, line)

\* Mutant: the callback stores the key where the value belongs.
ReplayApply_KeyAsValue(data, line) ==
    LET cmd == RaftUnmarshal(line)
    IN  CASE cmd.Op = "SET" -> StoreSet(data, cmd.Key, cmd.Key)
          [] cmd.Op = "DELETE" -> StoreDelete(data, cmd.Key)
          [] OTHER -> data

\* The callback main hands to Replay: decode, then SET / DELETE; any other
\* op falls through the switch and nil is returned.
ReplayApply(data, line) ==
    LET cmd == RaftUnmarshal(line)
    IN  CASE cmd.Op = "SET" -> StoreSet(data, cmd.Key, cmd.Value)
          [] cmd.Op = "DELETE" -> StoreDelete(data, cmd.Key)
          [] OTHER -> data

\* A partial last line, as the scanner hands it to the callback: bytes that
\* are not a JSON document.
TornRecord == Truncated(EmptyObj)

\* Replay, the scanner's loop (lines 48-54): the complete lines in file
\* order, then a partial last line, each handed to the callback; the loop
\* ends at the first line the scanner cannot deliver (scanner.Err()) and at
\* the first error of the callback, whose json.Unmarshal fails on bytes that
\* are not a JSON document.  `handed` lists the calls of the callback.
RECURSIVE ReplayFrom(_, _, _)
ReplayFrom(data, lines, torn) ==
    IF lines = <<>>
    THEN [data |-> data, err |-> torn,
          handed |-> IF torn THEN <<TornRecord>> ELSE <<>>]
    ELSE IF ~Scannable(Head(lines))
         THEN [data |-> data, err |-> TRUE, handed |-> <<>>]
         ELSE IF ~ValidJSON(Head(lines))
              THEN [data |-> data, err |-> TRUE, handed |-> <<Head(lines)>>]
              ELSE LET r == ReplayFrom(ReplayApply(data, Head(lines)),
                                       Tail(lines), torn)
                   IN  [r EXCEPT !.handed = <<Head(lines)>> \o @]

Replay(lines, torn) == ReplayFrom(NewStore, lines, torn)

\* Mutant: a missing file is reported like any other error of os.Open.
ReplayOpen_NotExistIsError(status, lines, torn) ==
    IF status = "present"
    THEN Replay(lines, torn)
    ELSE [data |-> NewStore, err |-> TRUE, handed |-> <<>>]

\* Replay from its first line: os.Open of the path.  No file there is
\* success without a call of the callback; any other error is returned.
ReplayOpen(status, lines, torn) ==
    IF status = "absent"
    THEN [data |-> NewStore, err |-> FALSE, handed |-> <<>>]
    ELSE IF status = "unreadable"
         THEN [data |-> NewStore, err |-> TRUE, handed |-> <<>>]
         ELSE Replay(lines, torn)

\* The records Replay hands to its callback and the callback decodes.
RECURSIVE ReplayDelivered(_)
ReplayDelivered(lines) ==
    IF lines = <<>> \/ ~Scannable(Head(lines)) \/ ~ValidJSON(Head(lines))
    THEN <<>>
    ELSE <<RaftUnmarshal(Head(lines))>> \o ReplayDelivered(Tail(lines))

\* ------------------------------------------------------------------ state
NoTx == [live |-> FALSE, ReadSet |-> <<>>, WriteSet |-> <<>>]

Init ==
    /\ raftLog = <<>>
    /\ applied = [n \in Nodes |-> 0]
    /\ pc = [n \in Nodes |-> "idle"]
    /\ cur = [n \in Nodes |-> NoCmd]
    /\ store = [n \in Nodes |-> NewStore]
    /\ wal = [n \in Nodes |-> <<>>]
    /\ walTorn = [n \in Nodes |-> FALSE]
    /\ txns = [n \in Nodes |-> [t \in TxIds |-> NoTx]]
    /\ pending = [n \in Nodes |-> {}]
    /\ usedIds = {}
    /\ leader = "n1"
    /\ calls = <<>>

Running(n) == pc[n] \in {"idle", "unmarshalled", "written", "synced"}

\* The WAL never outgrows this many lines (an entry handed to Apply again
\* after a crash is logged again).
MaxWal == MaxLog + 1

\* ------------------------------------------------------------------ consensus
\* Write-sets of the TX_COMMIT entries the cluster commits: none, one write,
\* two keys, one key twice.
EnvWriteSets ==
    { <<>>,
      <<[Key |-> "a", Value |-> "v1"]>>,
      <<[Key |-> "a", Value |-> "v1"], [Key |-> "b", Value |-> "v2"]>>,
      <<[Key |-> "a", Value |-> "v1"], [Key |-> "a", Value |-> "v2"]>> }

\* What the handlers of a leader submit: handleSet, handleDelete,
\* handleTxCommit.
LogEntries ==
    {ServerMarshal(ServerCommand("SET", k, v, <<>>)) :
        k \in Keys, v \in Values \cup {BigValue}}
    \cup {ServerMarshal(ServerCommand("DELETE", k, "", <<>>)) : k \in Keys}
    \cup {ServerMarshal(ServerCommand("TX_COMMIT", "", "", ws)) :
            ws \in EnvWriteSets}

\* The cluster commits one more entry (submitted at whichever node leads).
RaftCommit(entry, max) ==
    /\ Len(raftLog) < max
    /\ raftLog' = Append(raftLog, entry)
    /\ UNCHANGED <<applied, pc, cur, store, wal, walTorn, txns, pending, usedIds, leader, calls>>

\* ------------------------------------------------------------------ FSM.Apply
\* json.Unmarshal(logEntry.Data, &cmd) of the next committed entry returns
\* nil.
ApplyUnmarshal(n) ==
    /\ pc[n] = "idle"
    /\ applied[n] < Len(raftLog)
    /\ Len(wal[n]) < MaxWal
    /\ ValidJSON(raftLog[applied[n] + 1])
    /\ cur' = [cur EXCEPT ![n] = RaftUnmarshal(raftLog[applied[n] + 1])]
    /\ pc' = [pc EXCEPT ![n] = "unmarshalled"]
    /\ UNCHANGED <<raftLog, applied, store, wal, walTorn, txns, pending, usedIds, leader, calls>>

\* Mutant: Apply goes on to the store without the line being written.
ApplyWalWrite_Skipped(n) ==
    /\ pc[n] = "unmarshalled"
    /\ pc' = [pc EXCEPT ![n] = "written"]
    /\ UNCHANGED <<raftLog, applied, cur, store, wal, walTorn, txns, pending, usedIds, leader, calls>>

\* WAL.WriteCommand, first half: json.Marshal(cmd) and file.Write of the
\* line.
ApplyWalWrite(n) ==
    /\ pc[n] = "unmarshalled"
    /\ wal' = [wal EXCEPT ![n] = WalAppend(@, RaftMarshal(cur[n]))]
    /\ pc' = [pc EXCEPT ![n] = "written"]
    /\ UNCHANGED <<raftLog, applied, cur, store, walTorn, txns, pending, usedIds, leader, calls>>

\* WAL.WriteCommand, second half: file.Sync returns nil.
ApplyWalSync(n) ==
    /\ pc[n] = "written"
    /\ pc' = [pc EXCEPT ![n] = "synced"]
    /\ UNCHANGED <<raftLog, applied, cur, store, wal, walTorn, txns, pending, usedIds, leader, calls>>

\* The process is gone: its memory (store, registry, Apply's locals) with it.
Halted(n, to) ==
    /\ pc' = [pc EXCEPT ![n] = to]
    /\ cur' = [cur EXCEPT ![n] = NoCmd]
    /\ store' = [store EXCEPT ![n] = NewStore]
    /\ txns' = [txns EXCEPT ![n] = [t \in TxIds |-> NoTx]]
    /\ pending' = [pending EXCEPT ![n] = {}]

\* An Apply that did not return: the consensus module may count the entry
\* as delivered or hand it to Apply again after the restart.
Abandoned(n) == \E d \in {0, 1} : applied' = [applied EXCEPT ![n] = @ + d]

\* Mutant: a TX_COMMIT case that Sets the first write of the entry's
\* write_set and returns.
ApplyDispatch_PartialTx(n) ==
    /\ pc[n] = "synced"
    /\ LET ws == WriteSetOf(raftLog[applied[n] + 1])
       IN  store' = [store EXCEPT ![n] =
                       IF cur[n].Op = "SET" THEN StoreSet(@, cur[n].Key, cur[n].Value)
                       ELSE IF cur[n].Op = "DELETE" THEN StoreDelete(@, cur[n].Key)
                       ELSE IF ws # <<>> THEN StoreSet(@, ws[1].Key, ws[1].Value)
                       ELSE @]
    /\ pc' = [pc EXCEPT ![n] = "idle"]
    /\ cur' = [cur EXCEPT ![n] = NoCmd]
    /\ applied' = [applied EXCEPT ![n] = @ + 1]
    /\ UNCHANGED <<raftLog, wal, walTorn, txns, pending, usedIds, leader, calls>>

\* The switch of FSM.Apply: SET and DELETE mutate the store and Apply
\* returns nil; every other op reaches log.Panicf in the default case.
ApplyDispatch(n) ==
    /\ pc[n] = "synced"
    /\ IF cur[n].Op = "SET"
       THEN /\ store' = [store EXCEPT ![n] = StoreSet(@, cur[n].Key, cur[n].Value)]
            /\ pc' = [pc EXCEPT ![n] = "idle"]
            /\ cur' = [cur EXCEPT ![n] = NoCmd]
            /\ applied' = [applied EXCEPT ![n] = @ + 1]
            /\ UNCHANGED <<txns, pending>>
       ELSE IF cur[n].Op = "DELETE"
       THEN /\ store' = [store EXCEPT ![n] = StoreDelete(@, cur[n].Key)]
            /\ pc' = [pc EXCEPT ![n] = "idle"]
            /\ cur' = [cur EXCEPT ![n] = NoCmd]
            /\ applied' = [applied EXCEPT ![n] = @ + 1]
            /\ UNCHANGED <<txns, pending>>
       ELSE /\ Halted(n, "down")
            /\ Abandoned(n)
    /\ UNCHANGED <<raftLog, wal, walTorn, usedIds, leader, calls>>

\* ------------------------------------------------------------------ crash, restart
\* The node dies (kill, power loss) at any point.  A line written but not
\* yet synced may be on disk whole, in part, or not at all.
Crash(n) ==
    /\ Running(n)
    /\ Halted(n, "down")
    /\ IF pc[n] = "idle" THEN UNCHANGED applied ELSE Abandoned(n)
    /\ IF pc[n] = "written"
       THEN \E kept \in {"whole", "part", "none"} :
              /\ wal' = [wal EXCEPT ![n] =
                            IF kept = "whole" THEN @ ELSE SubSeq(@, 1, Len(@) - 1)]
              /\ walTorn' = [walTorn EXCEPT ![n] = (kept = "part")]
       ELSE UNCHANGED <<wal, walTorn>>
    /\ UNCHANGED <<raftLog, usedIds, leader, calls>>

\* main: store.NewStore, persistence.Replay into it (log.Fatalf on error),
\* persistence.NewWAL (O_APPEND: the file is left as it is), NewFSM, NewRaft.
Restart(n) ==
    /\ pc[n] \in {"down", "fatal"}
    /\ LET r == Replay(wal[n], walTorn[n])
       IN  IF r.err
           THEN /\ pc' = [pc EXCEPT ![n] = "fatal"]
                /\ UNCHANGED store
           ELSE /\ pc' = [pc EXCEPT ![n] = "idle"]
                /\ store' = [store EXCEPT ![n] = r.data]
    /\ UNCHANGED <<raftLog, applied, cur, wal, walTorn, txns, pending, usedIds,
                   leader, calls>>

\* ------------------------------------------------------------------ one node
Node1 == "n1"

Next ==
    \/ \E e \in LogEntries : RaftCommit(e, MaxLog)
    \/ ApplyUnmarshal(Node1)
    \/ ApplyWalWrite(Node1)
    \/ ApplyWalSync(Node1)
    \/ ApplyDispatch(Node1)
    \/ Crash(Node1)
    \/ Restart(Node1)

Spec == Init /\ [][Next]_vars

\* ------------------------------------------------------------------ two replicas
\* Two replicas fed the same committed log.  Nobody kills a node here; a
\* node still goes down when its own Apply panics, and is started again.
NextRepl ==
    \/ \E e \in LogEntries : RaftCommit(e, MaxReplLog)
    \/ \E n \in Nodes : ApplyUnmarshal(n)
    \/ \E n \in Nodes : ApplyWalWrite(n)
    \/ \E n \in Nodes : ApplyWalSync(n)
    \/ \E n \in Nodes : ApplyDispatch(n)
    \/ \E n \in Nodes : Restart(n)

SpecRepl == Init /\ [][NextRepl]_vars

\* ------------------------------------------------------------------ HTTP handlers
\* The HTTP server of a node answers once main has started it.
Serving(n) == Running(n)

\* raft.Apply(cmdBytes, 5s) of a leader: the entry is committed and will be
\* handed to every FSM.
Submit(cmd, max) ==
    /\ Len(raftLog) < max
    /\ raftLog' = Append(raftLog, ServerMarshal(cmd))

\* handleKV + handleSet at the leader: Command{Op: "SET", Key, Value}.
HandleSet(n, key, value, max) ==
    /\ Serving(n)
    /\ leader = n
    /\ Submit(ServerCommand("SET", key, value, <<>>), max)
    /\ UNCHANGED <<applied, pc, cur, store, wal, walTorn, txns, pending, usedIds,
                   leader, calls>>

\* handleKV + handleDelete at the leader: Command{Op: "DELETE", Key}.
HandleDelete(n, key, max) ==
    /\ Serving(n)
    /\ leader = n
    /\ Submit(ServerCommand("DELETE", key, "", <<>>), max)
    /\ UNCHANGED <<applied, pc, cur, store, wal, walTorn, txns, pending, usedIds,
                   leader, calls>>

\* Manager.Begin (handleTxBegin): a fresh uuid, empty sets, registered.
HandleTxBegin(n, id) ==
    /\ Serving(n)
    /\ id \notin usedIds
    /\ Cardinality(usedIds) < MaxTx
    /\ usedIds' = usedIds \cup {id}
    /\ txns' = [txns EXCEPT ![n][id] =
                  [live |-> TRUE, ReadSet |-> <<>>, WriteSet |-> <<>>]]
    /\ UNCHANGED <<raftLog, applied, pc, cur, store, wal, walTorn, pending,
                   leader, calls>>

\* Mutant: the staged write is also Set in the store.
HandleTxSet_WritesThrough(n, id, key, value) ==
    /\ Serving(n)
    /\ txns[n][id].live
    /\ Len(txns[n][id].WriteSet) < MaxWriteSet
    /\ txns' = [txns EXCEPT ![n][id].WriteSet =
                  Append(@, [Key |-> key, Value |-> value])]
    /\ store' = [store EXCEPT ![n] = StoreSet(@, key, value)]
    /\ UNCHANGED <<raftLog, applied, pc, cur, wal, walTorn, pending,
                   usedIds, leader, calls>>

\* handleTxSet with a registered id: Transaction.StageWrite appends.
HandleTxSet(n, id, key, value) ==
    /\ Serving(n)
    /\ txns[n][id].live
    /\ Len(txns[n][id].WriteSet) < MaxWriteSet
    /\ txns' = [txns EXCEPT ![n][id].WriteSet =
                  Append(@, [Key |-> key, Value |-> value])]
    /\ UNCHANGED <<raftLog, applied, pc, cur, store, wal, walTorn, pending,
                   usedIds, leader, calls>>

\* Transaction.StageRead on a registered transaction (no handler calls it).
StageRead(n, id, key, version) ==
    /\ Serving(n)
    /\ txns[n][id].live
    /\ Len(txns[n][id].ReadSet) < MaxReadSet
    /\ txns' = [txns EXCEPT ![n][id].ReadSet =
                  Append(@, [Key |-> key, Version |-> version])]
    /\ UNCHANGED <<raftLog, applied, pc, cur, store, wal, walTorn, pending,
                   usedIds, leader, calls>>

\* handleTxCommit at the leader with a registered id, up to the wait in
\* future.Error(): Command{Op: "TX_COMMIT", WriteSet: tx.WriteSet} is
\* submitted; the read-set is not part of it.  The deferred Clear runs when
\* the handler returns.
HandleTxCommit(n, id, max) ==
    /\ Serving(n)
    /\ leader = n
    /\ txns[n][id].live
    /\ Submit(ServerCommand("TX_COMMIT", "", "", txns[n][id].WriteSet), max)
    /\ pending' = [pending EXCEPT ![n] = @ \cup {[id |-> id, index |-> Len(raftLog) + 1]}]
    /\ UNCHANGED <<applied, pc, cur, store, wal, walTorn, txns, usedIds, leader,
                   calls>>

\* handleTxCommit when raft.Apply's future reports an error (the entry was
\* not accepted): 500, and the deferred Clear removes the transaction.
HandleTxCommitFail(n, id) ==
    /\ Serving(n)
    /\ leader = n
    /\ txns[n][id].live
    /\ txns' = [txns EXCEPT ![n][id] = NoTx]
    /\ UNCHANGED <<raftLog, applied, pc, cur, store, wal, walTorn, pending,
                   usedIds, leader, calls>>

NextTx ==
    \/ \E k \in Keys, v \in Values : HandleSet(Node1, k, v, MaxTxLog)
    \/ \E k \in Keys : HandleDelete(Node1, k, MaxTxLog)
    \/ \E id \in TxIds : HandleTxBegin(Node1, id)
    \/ \E id \in TxIds, k \in Keys, v \in Values : HandleTxSet(Node1, id, k, v)
    \/ \E id \in TxIds, k \in Keys, ver \in ReadVersions : StageRead(Node1, id, k, ver)
    \/ \E id \in TxIds : HandleTxCommit(Node1, id, MaxTxLog)
    \/ \E id \in TxIds : HandleTxCommitFail(Node1, id)
    \/ ApplyUnmarshal(Node1)
    \/ ApplyWalWrite(Node1)
    \/ ApplyWalSync(Node1)
    \/ ApplyDispatch(Node1)
    \/ Restart(Node1)

SpecTx == Init /\ [][NextTx]_vars

\* ------------------------------------------------------------------ store API
\* Direct calls of Store.Set / Store.Get / Store.Delete on one store, each
\* recorded with what it returned.
CallSet(key, value) ==
    /\ Len(calls) < MaxCalls
    /\ store' = [store EXCEPT ![Node1] = StoreSet(@, key, value)]
    /\ calls' = Append(calls, [op |-> "Set", key |-> key, value |-> value,
                               ok |-> TRUE, version |-> 0])
    /\ UNCHANGED <<raftLog, applied, pc, cur, wal, walTorn, txns, pending,
                   usedIds, leader>>

CallGet(key) ==
    /\ Len(calls) < MaxCalls
    /\ LET r == StoreGet(store[Node1], key)
       IN  calls' = Append(calls, [op |-> "Get", key |-> key,
                                   value |-> r.value.Value, ok |-> r.ok,
                                   version |-> r.value.Version])
    /\ UNCHANGED <<raftLog, applied, pc, cur, store, wal, walTorn, txns, pending,
                   usedIds, leader>>

CallDelete(key) ==
    /\ Len(calls) < MaxCalls
    /\ store' = [store EXCEPT ![Node1] = StoreDelete(@, key)]
    /\ calls' = Append(calls, [op |-> "Delete", key |-> key, value |-> "",
                               ok |-> TRUE, version |-> 0])
    /\ UNCHANGED <<raftLog, applied, pc, cur, wal, walTorn, txns, pending,
                   usedIds, leader>>

NextStore ==
    \/ \E k \in Keys, v \in Values : CallSet(k, v)
    \/ \E k \in Keys : CallGet(k)
    \/ \E k \in Keys : CallDelete(k)

SpecStore == Init /\ [][NextStore]_vars

\* ------------------------------------------------------------------ fault paths of Apply
\* Entries the handlers of this version never submit: an op this FSM does
\* not know (committed by a node of a later version), and an entry whose
\* bytes are damaged.
ForeignEntries == {("op" :> "INCR") @@ ("key" :> k) : k \in Keys}

CorruptEntries ==
    {Truncated(ServerMarshal(ServerCommand("SET", "a", "v1", <<>>)))}

FaultLogEntries ==
    {ServerMarshal(ServerCommand("SET", "a", v, <<>>)) : v \in Values}
    \cup {ServerMarshal(ServerCommand("DELETE", "a", "", <<>>))}
    \cup ForeignEntries \cup CorruptEntries

\* Mutant: the entry is logged as far as it decodes, then the node halts.
ApplyUnmarshalFail_LogsFirst(n) ==
    /\ pc[n] = "idle"
    /\ applied[n] < Len(raftLog)
    /\ Len(wal[n]) < MaxWal
    /\ ~ValidJSON(raftLog[applied[n] + 1])
    /\ wal' = [wal EXCEPT ![n] =
                  Append(@, RaftMarshal(RaftUnmarshal(raftLog[applied[n] + 1])))]
    /\ Halted(n, "down")
    /\ Abandoned(n)
    /\ UNCHANGED <<raftLog, walTorn, usedIds, leader, calls>>

\* json.Unmarshal(logEntry.Data, &cmd) returns an error: log.Panicf, in the
\* goroutine the consensus module runs the FSM on, ends the process.
ApplyUnmarshalFail(n) ==
    /\ pc[n] = "idle"
    /\ applied[n] < Len(raftLog)
    /\ Len(wal[n]) < MaxWal
    /\ ~ValidJSON(raftLog[applied[n] + 1])
    /\ Halted(n, "down")
    /\ Abandoned(n)
    /\ UNCHANGED <<raftLog, wal, walTorn, usedIds, leader, calls>>

\* WriteCommand returns the error of file.Write (disk full, I/O error), a
\* part of the line possibly written: log.Panicf in Apply.  (json.Marshal
\* of a struct of three strings returns no error.)
ApplyWalWriteFail(n) ==
    /\ pc[n] = "unmarshalled"
    /\ \E part \in BOOLEAN : walTorn' = [walTorn EXCEPT ![n] = part]
    /\ Halted(n, "down")
    /\ Abandoned(n)
    /\ UNCHANGED <<raftLog, wal, usedIds, leader, calls>>

\* Mutant: Apply hands the error of file.Sync back as the command's result
\* and returns; the node goes on to the next entry.
ApplyWalSyncFail_ReturnsError(n) ==
    /\ pc[n] = "written"
    /\ pc' = [pc EXCEPT ![n] = "idle"]
    /\ cur' = [cur EXCEPT ![n] = NoCmd]
    /\ applied' = [applied EXCEPT ![n] = @ + 1]
    /\ UNCHANGED <<raftLog, store, wal, walTorn, txns, pending, usedIds, leader, calls>>

\* WriteCommand returns the error of file.Sync, the line being in the file:
\* log.Panicf in Apply.
ApplyWalSyncFail(n) ==
    /\ pc[n] = "written"
    /\ Halted(n, "down")
    /\ Abandoned(n)
    /\ UNCHANGED <<raftLog, wal, walTorn, usedIds, leader, calls>>

NextFault ==
    \/ \E e \in FaultLogEntries : RaftCommit(e, MaxFaultLog)
    \/ ApplyUnmarshal(Node1)
    \/ ApplyUnmarshalFail(Node1)
    \/ ApplyWalWrite(Node1)
    \/ ApplyWalWriteFail(Node1)
    \/ ApplyWalSync(Node1)
    \/ ApplyWalSyncFail(Node1)
    \/ ApplyDispatch(Node1)
    \/ Restart(Node1)

SpecFault == Init /\ [][NextFault]_vars

\* ------------------------------------------------------------------ boot from a given file
\* The lines an app.wal handed to Replay may hold: lines of WriteCommand (a
\* short SET, a SET of a 64 KiB value, a DELETE) and a damaged line.
ReplayLines ==
    { RaftMarshal([Op |-> "SET", Key |-> "a", Value |-> "v1"]),
      RaftMarshal([Op |-> "SET", Key |-> "a", Value |-> BigValue]),
      RaftMarshal([Op |-> "DELETE", Key |-> "a", Value |-> ""]),
      Truncated(RaftMarshal([Op |-> "SET", Key |-> "b", Value |-> "v2"])) }

SeqsUpTo(S, n) == UNION {[1..k -> S] : k \in 0..n}

\* What main may find at <data dir>/app.wal.
WalFiles ==
    { [status |-> st, lines |-> <<>>, torn |-> FALSE] :
         st \in {"absent", "unreadable"} }
    \cup { [status |-> "present", lines |-> ls, torn |-> t] :
             ls \in SeqsUpTo(ReplayLines, MaxReplayLines), t \in BOOLEAN }

\* main started on a data directory with the given app.wal: NewStore,
\* Replay into it, log.Fatalf on its error, else NewWAL (which creates the
\* file when there is none) and NewFSM.  The call of Replay is recorded with
\* what it did.
Boot(file) ==
    /\ Len(calls) < MaxBoots
    /\ LET r == ReplayOpen(file.status, file.lines, file.torn)
       IN  /\ calls' = Append(calls,
                  [op |-> "Replay", file |-> file, handed |-> r.handed,
                   data |-> r.data, err |-> r.err])
           /\ pc' = [pc EXCEPT ![Node1] = IF r.err THEN "fatal" ELSE "idle"]
           /\ store' = [store EXCEPT ![Node1] = IF r.err THEN NewStore ELSE r.data]
    /\ wal' = [wal EXCEPT ![Node1] = file.lines]
    /\ walTorn' = [walTorn EXCEPT ![Node1] = file.torn]
    /\ UNCHANGED <<raftLog, applied, cur, txns, pending, usedIds, leader>>

NextBoot == \E file \in WalFiles : Boot(file)

SpecBoot == Init /\ [][NextBoot]_vars

\* ------------------------------------------------------------------ handlers that reject
\* The reply of a handler, as the client sees it.
Reply(node, method, arg, status, body) ==
    [op |-> "http", node |-> node, method |-> method, arg |-> arg,
     status |-> status, body |-> body]

\* Mutant: the leader check is skipped and the write is submitted.
HandleKVNotLeader_Submits(n, method, key) ==
    /\ Serving(n)
    /\ leader # n
    /\ method \in {"POST", "DELETE"}
    /\ Len(calls) < MaxRequests
    /\ Len(raftLog) < MaxHttpLog + 1
    /\ raftLog' = Append(raftLog, ServerMarshal(ServerCommand("DELETE", key, "", <<>>)))
    /\ calls' = Append(calls, Reply(n, method, key, 200, ""))
    /\ UNCHANGED <<applied, pc, cur, store, wal, walTorn, txns, pending,
                   usedIds, leader>>

\* handleKV, POST or DELETE at a node whose raft.State() is not Leader:
\* 403 naming raft.Leader(), before handleSet / handleDelete is reached.
HandleKVNotLeader(n, method, key) ==
    /\ Serving(n)
    /\ leader # n
    /\ method \in {"POST", "DELETE"}
    /\ Len(calls) < MaxRequests
    /\ calls' = Append(calls, Reply(n, method, key, 403, leader))
    /\ UNCHANGED <<raftLog, applied, pc, cur, store, wal, walTorn, txns, pending,
                   usedIds, leader>>

\* handleKV + handleGet, at any node: store.Get, 404 when the key is not
\* there, else the value as the body.
HandleGet(n, key, max) ==
    /\ Serving(n)
    /\ Len(calls) < max
    /\ LET r == StoreGet(store[n], key)
       IN  calls' = Append(calls,
               Reply(n, "GET", key, IF r.ok THEN 200 ELSE 404, r.value.Value))
    /\ UNCHANGED <<raftLog, applied, pc, cur, store, wal, walTorn, txns, pending,
                   usedIds, leader>>

\* handleTxCommit at a node whose raft.State() is not Leader: 403, before
\* the registry is looked at.
HandleTxCommitNotLeader(n, id) ==
    /\ Serving(n)
    /\ leader # n
    /\ Len(calls) < MaxRequests
    /\ calls' = Append(calls, Reply(n, "COMMIT", id, 403, ""))
    /\ UNCHANGED <<raftLog, applied, pc, cur, store, wal, walTorn, txns, pending,
                   usedIds, leader>>

\* Mutant: an id the registry does not hold is registered on the spot with
\* the write staged.
HandleTxSetNotFound_Registers(n, id, key, value) ==
    /\ Serving(n)
    /\ ~txns[n][id].live
    /\ Len(calls) < MaxRequests
    /\ txns' = [txns EXCEPT ![n][id] =
                  [live |-> TRUE, ReadSet |-> <<>>,
                   WriteSet |-> <<[Key |-> key, Value |-> value]>>]]
    /\ calls' = Append(calls, Reply(n, "TXSET", id, 200, ""))
    /\ UNCHANGED <<raftLog, applied, pc, cur, store, wal, walTorn, pending,
                   usedIds, leader>>

\* handleTxSet with an id Manager.Get does not find: 404.
HandleTxSetNotFound(n, id, key, value) ==
    /\ Serving(n)
    /\ ~txns[n][id].live
    /\ Len(calls) < MaxRequests
    /\ calls' = Append(calls, Reply(n, "TXSET", id, 404, ""))
    /\ UNCHANGED <<raftLog, applied, pc, cur, store, wal, walTorn, txns, pending,
                   usedIds, leader>>

\* handleTxCommit at the leader with an id Manager.Get does not find: 404,
\* before the deferred Clear is set up.
HandleTxCommitNotFound(n, id) ==
    /\ Serving(n)
    /\ leader = n
    /\ ~txns[n][id].live
    /\ Len(calls) < MaxRequests
    /\ calls' = Append(calls, Reply(n, "COMMIT", id, 404, ""))
    /\ UNCHANGED <<raftLog, applied, pc, cur, store, wal, walTorn, txns, pending,
                   usedIds, leader>>

Node2 == "n2"

\* A leader (n1) taking writes and a follower (n2) applying them, both
\* with a transaction registry, clients sending every request to either.
NextHttp ==
    \/ \E v \in Values : HandleSet(Node1, "a", v, MaxHttpLog)
    \/ HandleDelete(Node1, "a", MaxHttpLog)
    \/ \E n \in Nodes, id \in TxIds : HandleTxBegin(n, id)
    \/ \E n \in Nodes, id \in TxIds : HandleTxSet(n, id, "a", "v1")
    \/ \E id \in TxIds : HandleTxCommitFail(Node1, id)
    \/ ApplyUnmarshal(Node2)
    \/ ApplyWalWrite(Node2)
    \/ ApplyWalSync(Node2)
    \/ ApplyDispatch(Node2)
    \/ \E n \in Nodes, m \in {"POST", "DELETE"} : HandleKVNotLeader(n, m, "a")
    \/ \E n \in Nodes : HandleGet(n, "a", MaxRequests)
    \/ \E n \in Nodes, id \in TxIds : HandleTxCommitNotLeader(n, id)
    \/ \E n \in Nodes, id \in TxIds : HandleTxSetNotFound(n, id, "a", "v1")
    \/ \E n \in Nodes, id \in TxIds : HandleTxCommitNotFound(n, id)

SpecHttp == Init /\ [][NextHttp]_vars

\* ------------------------------------------------------------------ transaction manager API
\* Manager.Get on a registry: the map lookup.
ManagerGet(reg, id) == [tx |-> reg[id], ok |-> reg[id].live]

\* Mutant: the transaction is returned without being put in the map.
Begin_NotRegistered(id) ==
    /\ id \notin usedIds
    /\ Cardinality(usedIds) < MaxMgrTx
    /\ Len(calls) < MaxMgrCalls
    /\ usedIds' = usedIds \cup {id}
    /\ calls' = Append(calls, [op |-> "Begin", id |-> id,
                               ReadSet |-> <<>>, WriteSet |-> <<>>])
    /\ UNCHANGED <<raftLog, applied, pc, cur, store, wal, walTorn, txns, pending,
                   leader>>

\* Manager.Begin: uuid.NewString() (a random 128-bit id, taken here as one
\* never handed out before), empty ReadSet and WriteSet, stored in the map
\* under its id, returned.
Begin(id) ==
    /\ id \notin usedIds
    /\ Cardinality(usedIds) < MaxMgrTx
    /\ Len(calls) < MaxMgrCalls
    /\ usedIds' = usedIds \cup {id}
    /\ txns' = [txns EXCEPT ![Node1][id] =
                  [live |-> TRUE, ReadSet |-> <<>>, WriteSet |-> <<>>]]
    /\ calls' = Append(calls, [op |-> "Begin", id |-> id,
                               ReadSet |-> txns'[Node1][id].ReadSet,
                               WriteSet |-> txns'[Node1][id].WriteSet])
    /\ UNCHANGED <<raftLog, applied, pc, cur, store, wal, walTorn, pending,
                   leader>>

\* Manager.Get, called directly: a lookup under the read lock.
TxGet(id) ==
    /\ Len(calls) < MaxMgrCalls
    /\ calls' = Append(calls, [op |-> "TxGet", id |-> id,
                               ok |-> ManagerGet(txns[Node1], id).ok])
    /\ UNCHANGED <<raftLog, applied, pc, cur, store, wal, walTorn, txns, pending,
                   usedIds, leader>>

\* Transaction.StageWrite on a transaction Get returned.
StageWrite(id, key, value) ==
    /\ ManagerGet(txns[Node1], id).ok
    /\ Len(txns[Node1][id].WriteSet) < MaxWriteSet
    /\ txns' = [txns EXCEPT ![Node1][id].WriteSet =
                  Append(@, [Key |-> key, Value |-> value])]
    /\ UNCHANGED <<raftLog, applied, pc, cur, store, wal, walTorn, pending,
                   usedIds, leader, calls>>

\* Mutant: Clear empties the whole map.
Clear_All(id) ==
    /\ Len(calls) < MaxMgrCalls
    /\ txns' = [txns EXCEPT ![Node1] = [t \in TxIds |-> NoTx]]
    /\ calls' = Append(calls, [op |-> "Clear", id |-> id])
    /\ UNCHANGED <<raftLog, applied, pc, cur, store, wal, walTorn, pending,
                   usedIds, leader>>

\* Manager.Clear: delete(m.transactions, txID), a no-op for an absent key.
Clear(id) ==
    /\ Len(calls) < MaxMgrCalls
    /\ txns' = [txns EXCEPT ![Node1][id] = NoTx]
    /\ calls' = Append(calls, [op |-> "Clear", id |-> id])
    /\ UNCHANGED <<raftLog, applied, pc, cur, store, wal, walTorn, pending,
                   usedIds, leader>>

NextMgr ==
    \/ \E id \in TxIds : Begin(id)
    \/ \E id \in TxIds : TxGet(id)
    \/ \E id \in TxIds, v \in Values : StageWrite(id, "a", v)
    \/ \E id \in TxIds : Clear(id)

SpecMgr == Init /\ [][NextMgr]_vars

\* ------------------------------------------------------------------
\* Staging from concurrent requests
\* ------------------------------------------------------------------
\* net/http serves every request on its own goroutine.  handleTxSet takes
\* the registry lock only inside Manager.Get; Transaction.StageWrite is
\* t.WriteSet = append(t.WriteSet, ...) with no lock held: a read of the
\* slice followed by a write of the extended slice.  Two calls on one
\* transaction are a data race, whose outcomes are those of the two reads
\* and two writes in any order.
MaxStagers == 2

MaxStageReplies == 2

\* The handleTxSet calls of a node that have read the slice and not yet
\* written it back.
Staging(n) == {r \in pending[n] : r.index = 0}

\* The 200 of handleTxSet, with the write the request carried.
StageReply(n, id, key, value) ==
    [op |-> "http", node |-> n, method |-> "TXSET", arg |-> id,
     status |-> 200, body |-> "", key |-> key, value |-> value]

\* Every handleTxSet call there can be, with the slice it may have read.
StageCalls ==
    [id : TxIds, index : {0}, key : Keys, value : Values,
     seen : SeqsUpTo([Key : Keys, Value : Values], MaxWriteSet)]

\* handleTxSet with a registered id, up to append's read of t.WriteSet.
StageWriteLoad(n, id, key, value) ==
    /\ Serving(n)
    /\ txns[n][id].live
    /\ Len(txns[n][id].WriteSet) < MaxWriteSet
    /\ Cardinality(Staging(n)) < MaxStagers
    /\ pending' = [pending EXCEPT ![n] = @ \cup
                     {[id |-> id, index |-> 0, key |-> key, value |-> value,
                       seen |-> txns[n][id].WriteSet]}]
    /\ UNCHANGED <<raftLog, applied, pc, cur, store, wal, walTorn, txns,
                   usedIds, leader, calls>>

\* The rest of handleTxSet: the slice read earlier, extended by the entry,
\* is assigned to t.WriteSet, and 200 is answered.  The Transaction may have
\* been removed from the registry since Manager.Get returned it; the write
\* then goes to an object nothing refers to any more.
StageWriteStore(n, r) ==
    /\ Serving(n)
    /\ r \in Staging(n)
    /\ Len(calls) < MaxStageReplies
    /\ txns' = IF txns[n][r.id].live
                 THEN [txns EXCEPT ![n][r.id].WriteSet =
                         Append(r.seen, [Key |-> r.key, Value |-> r.value])]
                 ELSE txns
    /\ pending' = [pending EXCEPT ![n] = @ \ {r}]
    /\ calls' = Append(calls, StageReply(n, r.id, r.key, r.value))
    /\ UNCHANGED <<raftLog, applied, pc, cur, store, wal, walTorn, usedIds,
                   leader>>

\* One node, its registry, and clients staging into a transaction from
\* several requests at once.
NextRace ==
    \/ \E id \in TxIds : HandleTxBegin(Node1, id)
    \/ \E id \in TxIds, k \in Keys, v \in Values : StageWriteLoad(Node1, id, k, v)
    \/ \E r \in StageCalls : StageWriteStore(Node1, r)
    \/ \E id \in TxIds : HandleTxCommitFail(Node1, id)

SpecRace == Init /\ [][NextRace]_vars

\* ------------------------------------------------------------------
\* Staging next to a store in use
\* ------------------------------------------------------------------
MaxStageLog == 1

\* The leader taking writes of key "a" and applying them, while
\* transactions are begun, staged into and cleared, and the key is read.
NextStage ==
    \/ \E v \in Values : HandleSet(Node1, "a", v, MaxStageLog)
    \/ HandleDelete(Node1, "a", MaxStageLog)
    \/ ApplyUnmarshal(Node1)
    \/ ApplyWalWrite(Node1)
    \/ ApplyWalSync(Node1)
    \/ ApplyDispatch(Node1)
    \/ \E id \in TxIds : HandleTxBegin(Node1, id)
    \/ \E id \in TxIds : HandleTxSet(Node1, id, "a", "v2")
    \/ \E id \in TxIds : StageRead(Node1, id, "a", 1)
    \/ \E id \in TxIds : HandleTxCommitFail(Node1, id)
    \/ HandleGet(Node1, "a", MaxRequests)

SpecStage == Init /\ [][NextStage]_vars

\* ------------------------------------------------------------------
\* Writes answered after they are applied
\* ------------------------------------------------------------------
\* handleSet and handleDelete wait in future.Error() after raft.Apply; the
\* future of a leader completes without error once the entry is committed
\* and the leader's own FSM.Apply has returned for it.
MaxKVLog == 2

MaxKVReplies == 2

\* The handleSet / handleDelete calls there can be, with the index of the
\* entry each submitted.
KVCalls ==
    [id : {""}, index : 1..(MaxKVLog + 1), method : {"POST", "DELETE"}, key : Keys]

\* The answer of handleSet (201) or handleDelete (200); index is the log
\* index of the entry the request submitted.
WriteReply(n, r) ==
    [op |-> "http", node |-> n, method |-> r.method, arg |-> r.key,
     status |-> IF r.method = "POST" THEN 201 ELSE 200, body |-> "",
     index |-> r.index]

\* handleKV + handleSet at the leader, up to the wait in future.Error().
HandleSetSubmit(n, key, value, max) ==
    /\ Serving(n)
    /\ leader = n
    /\ Submit(ServerCommand("SET", key, value, <<>>), max)
    /\ pending' = [pending EXCEPT ![n] = @ \cup
                     {[id |-> "", index |-> Len(raftLog) + 1,
                       method |-> "POST", key |-> key]}]
    /\ UNCHANGED <<applied, pc, cur, store, wal, walTorn, txns, usedIds,
                   leader, calls>>

\* handleKV + handleDelete at the leader, up to the wait in future.Error().
HandleDeleteSubmit(n, key, max) ==
    /\ Serving(n)
    /\ leader = n
    /\ Submit(ServerCommand("DELETE", key, "", <<>>), max)
    /\ pending' = [pending EXCEPT ![n] = @ \cup
                     {[id |-> "", index |-> Len(raftLog) + 1,
                       method |-> "DELETE", key |-> key]}]
    /\ UNCHANGED <<applied, pc, cur, store, wal, walTorn, txns, usedIds,
                   leader, calls>>

\* Mutant: the handler answers as soon as the entry is submitted.
HandleKVReturn_BeforeApplied(n, r, max) ==
    /\ Serving(n)
    /\ r \in pending[n]
    /\ Len(calls) < max
    /\ pending' = [pending EXCEPT ![n] = @ \ {r}]
    /\ calls' = Append(calls, WriteReply(n, r))
    /\ UNCHANGED <<raftLog, applied, pc, cur, store, wal, walTorn, txns,
                   usedIds, leader>>

\* The rest of handleSet / handleDelete: future.Error() has returned nil,
\* the leader's FSM.Apply having returned for the entry, and the handler
\* answers 201 Created (handleSet) or 200 (handleDelete).
HandleKVReturn(n, r, max) ==
    /\ Serving(n)
    /\ r \in pending[n]
    /\ applied[n] >= r.index
    /\ Len(calls) < max
    /\ pending' = [pending EXCEPT ![n] = @ \ {r}]
    /\ calls' = Append(calls, WriteReply(n, r))
    /\ UNCHANGED <<raftLog, applied, pc, cur, store, wal, walTorn, txns,
                   usedIds, leader>>

\* The leader serving POST, DELETE and GET of key "a" to clients that wait
\* for each answer, applying the entries, crashing and restarting.
NextKV ==
    \/ \E v \in Values : HandleSetSubmit(Node1, "a", v, MaxKVLog)
    \/ HandleDeleteSubmit(Node1, "a", MaxKVLog)
    \/ \E r \in KVCalls : HandleKVReturn(Node1, r, MaxKVReplies)
    \/ HandleGet(Node1, "a", MaxKVReplies)
    \/ ApplyUnmarshal(Node1)
    \/ ApplyWalWrite(Node1)
    \/ ApplyWalSync(Node1)
    \/ ApplyDispatch(Node1)
    \/ Crash(Node1)
    \/ Restart(Node1)

SpecKV == Init /\ [][NextKV]_vars

\* ------------------------------------------------------------------
\* The return of handleTxCommit
\* ------------------------------------------------------------------
MaxCommitLog == 1

MaxCommitReplies == 1

\* The handleTxCommit calls there can be, with the index of the entry each
\* submitted.
CommitCalls == [id : TxIds, index : 1..(MaxCommitLog + 1)]

\* Mutant: the transaction is cleared only when the commit succeeded.
HandleTxCommitReturn_KeepsOnError(n, r, max) ==
    /\ Serving(n)
    /\ r \in pending[n]
    /\ Len(calls) < max
    /\ LET done == applied[n] >= r.index
       IN  /\ calls' = Append(calls,
                  Reply(n, "COMMIT", r.id, IF done THEN 200 ELSE 500, ""))
           /\ txns' = IF done THEN [txns EXCEPT ![n][r.id] = NoTx] ELSE txns
    /\ pending' = [pending EXCEPT ![n] = @ \ {r}]
    /\ UNCHANGED <<raftLog, applied, pc, cur, store, wal, walTorn, usedIds,
                   leader>>

\* The rest of handleTxCommit: future.Error() returns, nil once the
\* leader's FSM.Apply has returned for the entry, and otherwise an error
\* (no room in the queue within 5 s, leadership lost) whether or not the
\* entry is committed later; the handler answers 200 or 500 and the
\* deferred Clear(txID) runs.
HandleTxCommitReturn(n, r, max) ==
    /\ Serving(n)
    /\ r \in pending[n]
    /\ Len(calls) < max
    /\ calls' = Append(calls,
          Reply(n, "COMMIT", r.id, IF applied[n] >= r.index THEN 200 ELSE 500, ""))
    /\ txns' = [txns EXCEPT ![n][r.id] = NoTx]
    /\ pending' = [pending EXCEPT ![n] = @ \ {r}]
    /\ UNCHANGED <<raftLog, applied, pc, cur, store, wal, walTorn, usedIds,
                   leader>>

\* A leader (n1) and a follower (n2) taking commit requests for the
\* transactions begun at the leader, the leader applying the entries.
NextCommit ==
    \/ \E id \in TxIds : HandleTxBegin(Node1, id)
    \/ \E id \in TxIds : HandleTxSet(Node1, id, "a", "v1")
    \/ \E id \in TxIds : HandleTxCommit(Node1, id, MaxCommitLog)
    \/ \E id \in TxIds : HandleTxCommitFail(Node1, id)
    \/ \E r \in CommitCalls : HandleTxCommitReturn(Node1, r, MaxCommitReplies)
    \/ \E id \in TxIds : HandleTxCommitNotFound(Node1, id)
    \/ \E id \in TxIds : HandleTxCommitNotLeader(Node2, id)
    \/ ApplyUnmarshal(Node1)
    \/ ApplyWalWrite(Node1)
    \/ ApplyWalSync(Node1)
    \/ ApplyDispatch(Node1)
    \/ Restart(Node1)

SpecCommit == Init /\ [][NextCommit]_vars

\* ------------------------------------------------------------------
\* The store under concurrent callers
\* ------------------------------------------------------------------
\* Set, Get and Delete called from several goroutines (FSM.Apply, the GET
\* handlers, the callers of TestStore_Concurrency).  Set and Delete hold
\* mu.Lock() and Get holds mu.RLock() for the whole call.  The assignment
\* s.data[key] = VersionedValue{...} writes a string and a uint64, which is
\* not one memory operation: it is modelled as the write of Value followed
\* by the write of Version.
MaxLockCalls == 3

Goroutines == {"g1", "g2"}

\* The Set calls that hold mu.
Writing == {r \in pending[Node1] : r.index = 0}

\* Every Set call there can be, with what it has done so far.
SetCalls ==
    [id : Goroutines, index : {0}, key : Keys, value : Values,
     phase : {"locked", "value"}, current : 0..MaxLockCalls]

\* Store.Set: mu.Lock() and current, _ := s.data[key].
SetLock(g, key, value) ==
    /\ Writing = {}
    /\ Len(calls) + Cardinality(pending[Node1]) < MaxLockCalls
    /\ pending' = [pending EXCEPT ![Node1] = @ \cup
                     {[id |-> g, index |-> 0, key |-> key, value |-> value,
                       phase |-> "locked",
                       current |-> StoreGet(store[Node1], key).value.Version]}]
    /\ UNCHANGED <<raftLog, applied, pc, cur, store, wal, walTorn, txns,
                   usedIds, leader, calls>>

\* Store.Set: the Value half of the assignment to s.data[key].
SetAssignValue(r) ==
    /\ r \in Writing
    /\ r.phase = "locked"
    /\ store' = [store EXCEPT ![Node1] =
                   (r.key :> [Value |-> r.value, Version |-> r.current]) @@ @]
    /\ pending' = [pending EXCEPT ![Node1] =
                     (@ \ {r}) \cup {[r EXCEPT !.phase = "value"]}]
    /\ UNCHANGED <<raftLog, applied, pc, cur, wal, walTorn, txns, usedIds,
                   leader, calls>>

\* Store.Set: the Version half of the assignment, and the deferred
\* mu.Unlock().
SetAssignVersion(r) ==
    /\ r \in Writing
    /\ r.phase = "value"
    /\ store' = [store EXCEPT ![Node1] =
                   (r.key :> [Value |-> r.value, Version |-> r.current + 1]) @@ @]
    /\ pending' = [pending EXCEPT ![Node1] = @ \ {r}]
    /\ calls' = Append(calls, [op |-> "Set", key |-> r.key, value |-> r.value,
                               ok |-> TRUE, version |-> r.current + 1])
    /\ UNCHANGED <<raftLog, applied, pc, cur, wal, walTorn, txns, usedIds,
                   leader>>

\* Mutant: Get reads the map without mu.RLock().
LockedGet_NoRLock(key) ==
    /\ Len(calls) + Cardinality(pending[Node1]) < MaxLockCalls
    /\ LET r == StoreGet(store[Node1], key)
       IN  calls' = Append(calls, [op |-> "Get", key |-> key,
                                   value |-> r.value.Value, ok |-> r.ok,
                                   version |-> r.value.Version])
    /\ UNCHANGED <<raftLog, applied, pc, cur, store, wal, walTorn, txns, pending,
                   usedIds, leader>>

\* Store.Get: mu.RLock(), which waits while a Set or Delete holds mu, the
\* read of s.data[key], mu.RUnlock().
LockedGet(key) ==
    /\ Writing = {}
    /\ Len(calls) + Cardinality(pending[Node1]) < MaxLockCalls
    /\ LET r == StoreGet(store[Node1], key)
       IN  calls' = Append(calls, [op |-> "Get", key |-> key,
                                   value |-> r.value.Value, ok |-> r.ok,
                                   version |-> r.value.Version])
    /\ UNCHANGED <<raftLog, applied, pc, cur, store, wal, walTorn, txns, pending,
                   usedIds, leader>>

\* Store.Delete: mu.Lock(), delete(s.data, key), mu.Unlock().
LockedDelete(key) ==
    /\ Writing = {}
    /\ Len(calls) + Cardinality(pending[Node1]) < MaxLockCalls
    /\ store' = [store EXCEPT ![Node1] = StoreDelete(@, key)]
    /\ calls' = Append(calls, [op |-> "Delete", key |-> key, value |-> "",
                               ok |-> TRUE, version |-> 0])
    /\ UNCHANGED <<raftLog, applied, pc, cur, wal, walTorn, txns, pending,
                   usedIds, leader>>

NextLock ==
    \/ \E g \in Goroutines, k \in Keys, v \in Values : SetLock(g, k, v)
    \/ \E r \in SetCalls : SetAssignValue(r)
    \/ \E r \in SetCalls : SetAssignVersion(r)
    \/ \E k \in Keys : LockedGet(k)
    \/ \E k \in Keys : LockedDelete(k)

SpecLock == Init /\ [][NextLock]_vars

\* ------------------------------------------------------------------
\* main, step by step
\* ------------------------------------------------------------------
\* main runs on one goroutine up to raft.NewRaft: store.NewStore, then
\* persistence.Replay, one line of the file per turn of the scanner's
\* loop, then log.Fatalf or NewWAL, NewFSM, NewRaft and the HTTP server.
\* While Replay runs, pc is ScanPc[k + 1], k the number of lines the
\* callback has returned nil for.
MaxStartLog == 2

MaxStartReplies == 1

ScanPc == <<"scan0", "scan1", "scan2", "scan3", "scan4", "scan5", "scan6", "scan7">>

Scanning(n) == \E k \in 1..Len(ScanPc) : pc[n] = ScanPc[k]

Scanned(n) == (CHOOSE k \in 1..Len(ScanPc) : pc[n] = ScanPc[k]) - 1

\* What the clients of this cluster have committed: SET, a SET of a 64 KiB
\* value, DELETE, and a TX_COMMIT.
StartEntries ==
    { ServerMarshal(ServerCommand("SET", "a", "v1", <<>>)),
      ServerMarshal(ServerCommand("SET", "a", BigValue, <<>>)),
      ServerMarshal(ServerCommand("DELETE", "a", "", <<>>)),
      ServerMarshal(ServerCommand("TX_COMMIT", "", "", <<>>)) }

\* Mutant: raft and the HTTP server are started before the replay.
StartMain_ServesFirst(n) ==
    /\ pc[n] \in {"down", "fatal"}
    /\ pc' = [pc EXCEPT ![n] = "idle"]
    /\ store' = [store EXCEPT ![n] = NewStore]
    /\ UNCHANGED <<raftLog, applied, cur, wal, walTorn, txns, pending, usedIds,
                   leader, calls>>

\* main up to the scanner's loop: st := store.NewStore(), os.Open of
\* app.wal inside Replay.
StartMain(n) ==
    /\ pc[n] \in {"down", "fatal"}
    /\ pc' = [pc EXCEPT ![n] = ScanPc[1]]
    /\ store' = [store EXCEPT ![n] = NewStore]
    /\ UNCHANGED <<raftLog, applied, cur, wal, walTorn, txns, pending, usedIds,
                   leader, calls>>

\* One turn of Replay's loop: scanner.Scan() and the callback.  A line
\* beyond the scanner's buffer ends the loop with scanner.Err(), bytes that
\* are not a JSON document make the callback return an error; either way
\* Replay returns the error and main exits with log.Fatalf.
ReplayLine(n) ==
    /\ Scanning(n)
    /\ Scanned(n) < Len(wal[n])
    /\ LET line == wal[n][Scanned(n) + 1]
       IN  IF Scannable(line) /\ ValidJSON(line)
           THEN /\ pc' = [pc EXCEPT ![n] = ScanPc[Scanned(n) + 2]]
                /\ store' = [store EXCEPT ![n] = ReplayApply(@, line)]
                /\ UNCHANGED <<cur, txns, pending>>
           ELSE Halted(n, "fatal")
    /\ UNCHANGED <<raftLog, applied, wal, walTorn, usedIds, leader, calls>>

\* The end of the file: a partial last line is handed to the callback,
\* which fails on it (log.Fatalf); otherwise Replay returns nil and main
\* goes on to NewWAL, NewFSM, raft.NewRaft and http.ListenAndServe.
ReplayEnd(n) ==
    /\ Scanning(n)
    /\ Scanned(n) = Len(wal[n])
    /\ IF walTorn[n]
       THEN Halted(n, "fatal")
       ELSE /\ pc' = [pc EXCEPT ![n] = "idle"]
            /\ UNCHANGED <<cur, store, txns, pending>>
    /\ UNCHANGED <<raftLog, applied, wal, walTorn, usedIds, leader, calls>>

\* One node applying the committed entries and answering GET, killed and
\* started again.
NextStart ==
    \/ \E e \in StartEntries : RaftCommit(e, MaxStartLog)
    \/ ApplyUnmarshal(Node1)
    \/ ApplyWalWrite(Node1)
    \/ ApplyWalSync(Node1)
    \/ ApplyDispatch(Node1)
    \/ Crash(Node1)
    \/ StartMain(Node1)
    \/ ReplayLine(Node1)
    \/ ReplayEnd(Node1)
    \/ HandleGet(Node1, "a", MaxStartReplies)

SpecStart == Init /\ [][NextStart]_vars

\* ------------------------------------------------------------------
\* Writes of one key next to another
\* ------------------------------------------------------------------
MaxFrameLog == 2

MaxFrameReplies == 1

\* SET and DELETE of either key, as handleSet and handleDelete submit them.
FrameEntries ==
    {ServerMarshal(ServerCommand("SET", k, "v1", <<>>)) : k \in Keys}
    \cup {ServerMarshal(ServerCommand("DELETE", k, "", <<>>)) : k \in Keys}

\* One node applying writes of two keys and answering GET of either.
NextFrame ==
    \/ \E e \in FrameEntries : RaftCommit(e, MaxFrameLog)
    \/ ApplyUnmarshal(Node1)
    \/ ApplyWalWrite(Node1)
    \/ ApplyWalSync(Node1)
    \/ ApplyDispatch(Node1)
    \/ \E k \in Keys : HandleGet(Node1, k, MaxFrameReplies)

SpecFrame == Init /\ [][NextFrame]_vars

\* ------------------------------------------------------------------
\* The file across a crash inside file.Write
\* ------------------------------------------------------------------
\* A crash between file.Write and file.Sync may leave any beginning of the
\* bytes written.  Crash has the cases of the whole line, none of it and a
\* part that is not a JSON document; the case left is the whole object
\* without the newline that ends the line.
MaxAppendLog == 2

AppendEntries ==
    { ServerMarshal(ServerCommand("SET", "a", "v1", <<>>)),
      ServerMarshal(ServerCommand("SET", "b", "v2", <<>>)),
      ServerMarshal(ServerCommand("DELETE", "a", "", <<>>)) }

\* The node dies between file.Write and file.Sync of a line that started
\* on its own, and all of the line but its newline is on disk.
CrashBeforeNewline(n) ==
    /\ pc[n] = "written"
    /\ Terminated(wal[n][Len(wal[n])])
    /\ ValidJSON(wal[n][Len(wal[n])])
    /\ Halted(n, "down")
    /\ Abandoned(n)
    /\ wal' = [wal EXCEPT ![n][Len(wal[n])] = Unterminated(@)]
    /\ UNCHANGED <<raftLog, walTorn, usedIds, leader, calls>>

\* One node applying SET and DELETE entries, dying inside file.Write and
\* started again.
NextAppend ==
    \/ \E e \in AppendEntries : RaftCommit(e, MaxAppendLog)
    \/ ApplyUnmarshal(Node1)
    \/ ApplyWalWrite(Node1)
    \/ ApplyWalSync(Node1)
    \/ ApplyDispatch(Node1)
    \/ CrashBeforeNewline(Node1)
    \/ Restart(Node1)

SpecAppend == Init /\ [][NextAppend]_vars

\* ==================================================================
\* Properties
\* ==================================================================

\* The store a sequence of WAL lines stands for: the commands of the lines,
\* applied in order.
RECURSIVE StoreOfLines(_)
StoreOfLines(lines) ==
    IF lines = <<>> THEN NewStore
    ELSE ReplayApply(StoreOfLines(SubSeq(lines, 1, Len(lines) - 1)),
                     lines[Len(lines)])

\* Section 4.4 of the specification, step 3: what applying one committed
\* entry to a store is meant to do.
RECURSIVE SetAll(_, _)
SetAll(data, ws) ==
    IF ws = <<>> THEN data
    ELSE SetAll(StoreSet(data, Head(ws).Key, Head(ws).Value), Tail(ws))

SpecApply(data, entry) ==
    CASE GetStr(entry, "op") = "SET" ->
            StoreSet(data, GetStr(entry, "key"), GetStr(entry, "value"))
      [] GetStr(entry, "op") = "DELETE" -> StoreDelete(data, GetStr(entry, "key"))
      [] GetStr(entry, "op") = "TX_COMMIT" -> SetAll(data, WriteSetOf(entry))
      [] OTHER -> data

RECURSIVE SpecStoreOf(_)
SpecStoreOf(entries) ==
    IF entries = <<>> THEN NewStore
    ELSE SpecApply(SpecStoreOf(SubSeq(entries, 1, Len(entries) - 1)),
                   entries[Len(entries)])

\* The committed entries the consensus module counts as delivered to n.
Delivered(n) == SubSeq(raftLog, 1, applied[n])

\* The entry FSM.Apply of n is working on.
InFlight(n) == raftLog[applied[n] + 1]

\* ------------------------------------------------------------------ C1
\* C1: at every point of FSM.Apply, crashes and restarts included, the store
\* of a running node is what the lines of its WAL stand for, or what they
\* stand for without the last line (the line of the command Apply has
\* logged and not yet applied): the store never holds the effect of a
\* command that is not in the WAL.
C1_WalBeforeStore ==
    \A n \in Nodes :
        Running(n) =>
            \E j \in 0..Len(wal[n]) :
                /\ j >= Len(wal[n]) - 1
                /\ store[n] = StoreOfLines(SubSeq(wal[n], 1, j))

\* A second command is logged and synced, not yet applied, while the first
\* is visible in the store.
C1_Witness ==
    /\ pc[Node1] = "synced"
    /\ Len(wal[Node1]) = 2
    /\ store[Node1] # NewStore
    /\ store[Node1] = StoreOfLines(SubSeq(wal[Node1], 1, 1))
    /\ store[Node1] # StoreOfLines(wal[Node1])

\* ------------------------------------------------------------------ C2
\* C2: when a node whose WAL holds exactly the delivered commands, one line
\* each, is restarted, replay succeeds and the store it builds equals the
\* delivered commands applied in order to a fresh store, a TX_COMMIT being
\* the Set of every write of its write_set.
WalHoldsDelivered(n) ==
    /\ ~walTorn[n]
    /\ Len(wal[n]) = applied[n]
    /\ \A i \in 1..applied[n] : wal[n][i] = RaftMarshal(RaftUnmarshal(raftLog[i]))

C2_CrashRecoveryEquivalence ==
    [][\A n \in Nodes :
         (Restart(n) /\ WalHoldsDelivered(n)) =>
            /\ pc'[n] = "idle"
            /\ store'[n] = SpecStoreOf(Delivered(n))]_vars

\* ------------------------------------------------------------------ C3
\* C3: whatever crashes and restarts happened, an idle node's store is the
\* delivered commands applied exactly once each, in order, and its WAL holds
\* one line per delivered command, in order.
C3_NoLossNoDuplication ==
    \A n \in Nodes :
        pc[n] = "idle" =>
            /\ store[n] = SpecStoreOf(Delivered(n))
            /\ Len(wal[n]) = applied[n]
            /\ \A i \in 1..Len(wal[n]) :
                   i <= applied[n] => wal[n][i]["op"] = raftLog[i]["op"]

StaleRead(readSet, data) ==
    \E i \in 1..Len(readSet) :
        /\ readSet[i].Key \in DOMAIN data
        /\ data[readSet[i].Key].Version # readSet[i].Version

\* A read-set entry as above whose key the write-set writes.
StaleReadOfWrittenKey(readSet, writeSet, data) ==
    \E i \in 1..Len(readSet) :
        /\ readSet[i].Key \in DOMAIN data
        /\ data[readSet[i].Key].Version # readSet[i].Version
        /\ \E j \in 1..Len(writeSet) : writeSet[j].Key = readSet[i].Key

\* The handleTxCommit calls of n waiting for the entry Apply is working on.
Committing(n) == {r \in pending[n] : r.index = applied[n] + 1}

\* C5: the dispatch of a TX_COMMIT that carries staged writes and whose
\* transaction has no stale read returns with every write of the write_set
\* Set, in order: each key ends with its last staged value and its version
\* grown by the number of writes staged for it.
C5_TxCommitAppliesWriteSet ==
    [][\A n \in Nodes :
         ( /\ ApplyDispatch(n)
           /\ cur[n].Op = "TX_COMMIT"
           /\ WriteSetOf(InFlight(n)) # <<>>
           /\ \A r \in Committing(n) : ~StaleRead(txns[n][r.id].ReadSet, store[n]) )
         => /\ pc'[n] = "idle"
            /\ store'[n] = SetAll(store[n], WriteSetOf(InFlight(n)))]_vars

\* ------------------------------------------------------------------ C6
\* C6: the dispatch of a TX_COMMIT whose transaction recorded, for a key it
\* writes, a version the store no longer has is a rejection: Apply returns
\* and the store is as it was, the key still at the other writer's value.
C6_OccConflictRejected ==
    [][\A n \in Nodes :
         \A r \in pending[n] :
            ( /\ ApplyDispatch(n)
              /\ cur[n].Op = "TX_COMMIT"
              /\ r \in Committing(n)
              /\ StaleReadOfWrittenKey(txns[n][r.id].ReadSet,
                                       WriteSetOf(InFlight(n)), store[n]) )
            => /\ pc'[n] = "idle"
               /\ store'[n] = store[n]]_vars

\* ------------------------------------------------------------------ C7
\* The calls among the first i that decide what key holds: the Sets of it
\* after its last Delete.
LastDelete(key, i) ==
    LET ds == {j \in 1..i : calls[j].op = "Delete" /\ calls[j].key = key}
    IN  IF ds = {} THEN 0 ELSE CHOOSE j \in ds : \A d \in ds : d <= j

SetsSince(key, i) ==
    {j \in (LastDelete(key, i) + 1)..i : calls[j].op = "Set" /\ calls[j].key = key}

\* C7: on a fresh store, every Get(k) finds k exactly when k was Set since
\* its last Delete; the version it returns is the number of those Sets (1
\* for the first, one more for each next) and the value that of the last.
C7_VersionCountsSets ==
    \A i \in 1..Len(calls) :
        calls[i].op = "Get" =>
            LET sets == SetsSince(calls[i].key, i - 1)
            IN  /\ calls[i].ok = (sets # {})
                /\ sets # {} =>
                     /\ calls[i].version = Cardinality(sets)
                     /\ calls[i].value =
                            calls[CHOOSE j \in sets : \A m \in sets : m <= j].value

\* Set, Set, Get of one key: the Get returns version 2.
C7_Witness ==
    /\ Len(calls) >= 3
    /\ calls[1].op = "Set" /\ calls[2].op = "Set" /\ calls[3].op = "Get"
    /\ calls[1].key = calls[3].key /\ calls[2].key = calls[3].key
    /\ calls[1].value # calls[2].value
    /\ calls[3].ok /\ calls[3].version = 2 /\ calls[3].value = calls[2].value

\* ------------------------------------------------------------------ C8
\* C8: right after Delete(k), Get(k) reports not-found, and a Set(k, v) that
\* follows a Delete(k) leaves k at version 1 with value v.
C8_DeleteResetsKey ==
    LET last == Len(calls)
    IN  /\ (last >= 1 /\ calls[last].op = "Delete") =>
              ~StoreGet(store[Node1], calls[last].key).ok
        /\ ( /\ last >= 2
             /\ calls[last - 1].op = "Delete"
             /\ calls[last].key = calls[last - 1].key ) =>
              /\ calls[last].op = "Get" => ~calls[last].ok
              /\ calls[last].op = "Set" =>
                   StoreGet(store[Node1], calls[last].key) =
                       [value |-> [Value |-> calls[last].value, Version |-> 1],
                        ok |-> TRUE]

\* Set, Set, Delete, Set of one key: deleted at version 2, back at version 1.
C8_Witness ==
    /\ Len(calls) = 4
    /\ calls[1].op = "Set" /\ calls[2].op = "Set"
    /\ calls[3].op = "Delete" /\ calls[4].op = "Set"
    /\ \A i \in 1..3 : calls[i].key = calls[4].key
    /\ StoreGet(store[Node1], calls[4].key).value.Version = 1

\* ------------------------------------------------------------------ C9
\* C9: two replicas that are between Applies and have been delivered the
\* same prefix of the committed log hold the same store, whether they got
\* there by Apply alone or by a restart and a replay of their WAL.
C9_ReplicasAgree ==
    \A n, m \in Nodes :
        (pc[n] = "idle" /\ pc[m] = "idle" /\ applied[n] = applied[m])
            => store[n] = store[m]

\* n2 applied a SET and kept running; n1 applied it, went down on the next
\* entry, and rebuilt its store from its WAL.
C9_Witness ==
    /\ pc["n1"] = "idle" /\ pc["n2"] = "idle"
    /\ applied["n1"] = applied["n2"]
    /\ store["n1"] # NewStore
    /\ Len(wal["n2"]) = 1
    /\ Len(wal["n1"]) = 2

\* ------------------------------------------------------------------ C10
\* C10: once WriteCommand has written and synced the line of the entry
\* Apply is working on, Replay over the file delivers one record per line,
\* the last with the op, key, value and write_set of that entry.
C10_WalRoundTrip ==
    [][\A n \in Nodes :
         ApplyWalSync(n) =>
            LET got == ReplayDelivered(wal'[n])
            IN  /\ Len(got) = Len(wal'[n])
                /\ got[Len(got)].Op = GetStr(InFlight(n), "op")
                /\ got[Len(got)].Key = GetStr(InFlight(n), "key")
                /\ got[Len(got)].Value = GetStr(InFlight(n), "value")
                /\ (IF "WriteSet" \in DOMAIN got[Len(got)]
                    THEN got[Len(got)].WriteSet ELSE <<>>)
                       = WriteSetOf(InFlight(n))]_vars

\* ------------------------------------------------------------------ C11
\* The lines of n's WAL whose WriteCommand has returned nil: all of them,
\* but for the last while Apply sits between file.Write and file.Sync.
SyncedLines(n) ==
    SubSeq(wal[n], 1, Len(wal[n]) - (IF pc[n] = "written" THEN 1 ELSE 0))

\* C11: a crash keeps every record whose WriteCommand returned nil among the
\* records Replay delivers after the restart, at its place in the order.
C11_SyncedRecordSurvivesCrash ==
    [][\A n \in Nodes :
         Crash(n) =>
            LET kept == SyncedLines(n)
                got == ReplayDelivered(wal'[n])
            IN  /\ Len(got) >= Len(kept)
                /\ \A i \in 1..Len(kept) : got[i] = RaftUnmarshal(kept[i])]_vars

\* ------------------------------------------------------------------ C12
\* C12: the dispatch of a command whose op is none of SET, DELETE,
\* TX_COMMIT returns with the store as it was, and the node goes on to the
\* next entry.
C12_UnknownOpIsNoOp ==
    [][\A n \in Nodes :
         (ApplyDispatch(n) /\ cur[n].Op \notin {"SET", "DELETE", "TX_COMMIT"})
         => /\ pc'[n] = "idle"
            /\ store'[n] = store[n]
            /\ applied'[n] = applied[n] + 1]_vars

\* ------------------------------------------------------------------ C13
\* C13: when the WAL append of Apply fails the node halts on the spot; a
\* halted node processes no entry and changes nothing until it is started
\* again; and Apply changes the store of a node that keeps running only
\* from the point where the append has succeeded, the command's line being
\* the last of the WAL.
C13_WalFailureHalts ==
    [][\A n \in Nodes :
         /\ (ApplyWalWriteFail(n) \/ ApplyWalSyncFail(n)) =>
               /\ pc'[n] = "down"
               /\ wal'[n] = wal[n]
         /\ (~Running(n) /\ Running(n)') => Restart(n)
         /\ (~Running(n) /\ ~Running(n)') =>
               /\ applied'[n] = applied[n]
               /\ store'[n] = store[n]
               /\ wal'[n] = wal[n]
         /\ (Running(n) /\ Running(n)' /\ store'[n] # store[n]) =>
               /\ pc[n] = "synced"
               /\ wal[n] # <<>>
               /\ wal[n][Len(wal[n])] = RaftMarshal(cur[n])]_vars

\* The first SET was applied; the append of the second failed at file.Sync
\* and the node is down (nothing else takes a node down when every entry is
\* a well-formed SET).
C13_Witness ==
    /\ pc[Node1] = "down"
    /\ Len(raftLog) = 2
    /\ \A i \in 1..2 : ValidJSON(raftLog[i]) /\ raftLog[i]["op"] = "SET"
    /\ Len(wal[Node1]) = 2
    /\ ~walTorn[Node1]
    /\ store[Node1] = NewStore

\* ------------------------------------------------------------------ C14
\* C14: the Apply of an entry that does not decode halts the node as its
\* first step: nothing is appended to the WAL, and the WAL still stands for
\* exactly the store the node had before that Apply.
C14_CorruptEntryHaltsFirst ==
    [][\A n \in Nodes :
         ( /\ pc[n] = "idle"
           /\ applied[n] < Len(raftLog)
           /\ ~ValidJSON(InFlight(n))
           /\ pc'[n] # pc[n] )
         => /\ pc'[n] = "down"
            /\ wal'[n] = wal[n]
            /\ walTorn'[n] = walTorn[n]
            /\ StoreOfLines(wal'[n]) = store[n]]_vars

\* A SET was applied, then a damaged entry took the node down: the WAL
\* holds the one line of the SET.
C14_Witness ==
    /\ pc[Node1] = "down"
    /\ Len(raftLog) = 2
    /\ raftLog[1]["op"] = "SET" /\ ValidJSON(raftLog[1])
    /\ ~ValidJSON(raftLog[2])
    /\ applied[Node1] = 2
    /\ Len(wal[Node1]) = 1
    /\ ~walTorn[Node1]
    /\ StoreOfLines(wal[Node1]) # NewStore

\* ------------------------------------------------------------------ C15
\* The records of a file, the partial last one included, and the first of
\* them the callback returns an error for (one past the end when none).
RecordsOf(file) ==
    file.lines \o (IF file.torn THEN <<TornRecord>> ELSE <<>>)

FirstCallbackError(recs) ==
    LET bad == {j \in 1..Len(recs) : ~ValidJSON(recs[j])}
    IN  IF bad = {} THEN Len(recs) + 1
        ELSE CHOOSE j \in bad : \A b \in bad : j <= b

\* C15: Replay over an existing file calls the callback once per record, in
\* file order, up to and including the first record the callback fails on;
\* it returns an error exactly when there is such a record, and the store
\* holds the records before it and nothing of those after.
C15_ReplayInOrderUntilError ==
    \A i \in 1..Len(calls) :
        (calls[i].op = "Replay" /\ calls[i].file.status = "present") =>
            LET recs == RecordsOf(calls[i].file)
                stop == FirstCallbackError(recs)
                last == IF stop <= Len(recs) THEN stop ELSE Len(recs)
            IN  /\ calls[i].handed = SubSeq(recs, 1, last)
                /\ calls[i].err = (stop <= Len(recs))
                /\ calls[i].data = StoreOfLines(SubSeq(recs, 1, stop - 1))

\* ------------------------------------------------------------------ C16
\* C16: Replay over a path with no file returns nil without a call of the
\* callback, and main goes on with an empty store and a running node.
C16_MissingFileIsFirstBoot ==
    \A i \in 1..Len(calls) :
        (calls[i].op = "Replay" /\ calls[i].file.status = "absent") =>
            /\ ~calls[i].err
            /\ calls[i].handed = <<>>
            /\ calls[i].data = NewStore
            /\ i = Len(calls) =>
                 /\ pc[Node1] = "idle"
                 /\ store[Node1] = NewStore
                 /\ wal[Node1] = <<>>

\* main was started where there is no app.wal and is up.
C16_Witness ==
    /\ Len(calls) = 1
    /\ calls[1].op = "Replay"
    /\ calls[1].file.status = "absent"
    /\ ~calls[1].err
    /\ pc[Node1] = "idle"

\* ------------------------------------------------------------------ C17
\* The reply a step records, if it records one.
Replied == Len(calls') = Len(calls) + 1 /\ calls'[Len(calls')].op = "http"

LastReply == calls'[Len(calls')]

\* C17: every reply to a POST or DELETE on /kv/<key> or to a commit at a
\* node that is not the leader is a 403, and the step submits nothing and
\* leaves every store, WAL and registry as it was; every reply to a GET,
\* at the leader or not, is what the local store holds for the key.
C17_NonLeaderRejectsWrites ==
    [][Replied =>
         /\ (LastReply.node # leader /\ LastReply.method \in {"POST", "DELETE", "COMMIT"})
            => /\ LastReply.status = 403
               /\ raftLog' = raftLog
               /\ store' = store
               /\ wal' = wal
               /\ txns' = txns
         /\ LastReply.method = "GET"
            => LET r == StoreGet(store[LastReply.node], LastReply.arg)
               IN  /\ LastReply.status = (IF r.ok THEN 200 ELSE 404)
                   /\ r.ok => LastReply.body = r.value.Value]_vars

\* The follower holds a staged transaction and an applied SET, and refused
\* the commit of that transaction.
C17_Witness ==
    /\ Len(calls) = 1
    /\ calls[1].op = "http" /\ calls[1].node = Node2 /\ calls[1].method = "COMMIT"
    /\ calls[1].status = 403
    /\ leader = Node1
    /\ txns[Node2][calls[1].arg].live
    /\ txns[Node2][calls[1].arg].WriteSet # <<>>
    /\ store[Node2] # NewStore
    /\ Len(raftLog) = 1

Called(op) == Len(calls') = Len(calls) + 1 /\ calls'[Len(calls')].op = op

\* The ids Begin has returned so far.
Returned == {calls[i].id : i \in {j \in 1..Len(calls) : calls[j].op = "Begin"}}

\* C19: the transaction Begin returns has a non-empty id that no earlier
\* Begin returned and empty read- and write-sets; right after the call Get
\* finds it, with those sets, and every other transaction is as it was.
C19_BeginRegistersFresh ==
    [][Called("Begin") =>
         LET r == calls'[Len(calls')]
             got == ManagerGet(txns'[Node1], r.id)
         IN  /\ r.id # ""
             /\ r.id \notin Returned
             /\ r.ReadSet = <<>> /\ r.WriteSet = <<>>
             /\ got.ok
             /\ got.tx.ReadSet = <<>> /\ got.tx.WriteSet = <<>>
             /\ \A o \in TxIds \ {r.id} : txns'[Node1][o] = txns[Node1][o]]_vars

\* A second Begin, made while the first transaction holds a staged write:
\* two transactions are registered under different ids.
C19_Witness ==
    /\ Len(calls) = 2
    /\ calls[1].op = "Begin" /\ calls[2].op = "Begin"
    /\ calls[1].id # calls[2].id
    /\ txns[Node1][calls[1].id].live
    /\ txns[Node1][calls[1].id].WriteSet # <<>>
    /\ txns[Node1][calls[2].id].live
    /\ txns[Node1][calls[2].id].WriteSet = <<>>

\* ------------------------------------------------------------------ C20
\* C20: after Clear(id), Get(id) reports not-found and every other id is
\* registered or not as before, with the same read- and write-sets; Clear
\* of an id that is not registered changes nothing; Get changes nothing.
C20_ClearRemovesOnlyItsId ==
    [][/\ Called("Clear") =>
            LET id == calls'[Len(calls')].id
            IN  /\ ~ManagerGet(txns'[Node1], id).ok
                /\ \A o \in TxIds \ {id} : txns'[Node1][o] = txns[Node1][o]
                /\ ~ManagerGet(txns[Node1], id).ok => txns' = txns
       /\ Called("TxGet") =>
            /\ txns' = txns
            /\ calls'[Len(calls')].ok = txns[Node1][calls'[Len(calls')].id].live]_vars

\* Two transactions were begun and one staged a write; the other was
\* cleared twice: the first is still registered with its write.
C20_Witness ==
    /\ Len(calls) = 4
    /\ calls[1].op = "Begin" /\ calls[2].op = "Begin"
    /\ calls[3].op = "Clear" /\ calls[4].op = "Clear"
    /\ calls[3].id = calls[2].id /\ calls[4].id = calls[2].id
    /\ ~txns[Node1][calls[2].id].live
    /\ txns[Node1][calls[1].id].live
    /\ txns[Node1][calls[1].id].WriteSet # <<>>

\* ------------------------------------------------------------------ C30
\* C30: whenever main is started after a crash, over a WAL whose complete
\* lines all fit the scanner's buffer, Replay succeeds and the node starts,
\* with every complete line delivered in order: a partial last line, left
\* by a crash between file.Write and file.Sync, does not stop it.
C30_TornTailDoesNotStopReplay ==
    [][\A n \in Nodes :
         ( /\ Restart(n)
           /\ \A i \in 1..Len(wal[n]) : Scannable(wal[n][i]) )
         => /\ pc'[n] = "idle"
            /\ Len(ReplayDelivered(wal[n])) = Len(wal[n])
            /\ store'[n] = StoreOfLines(wal[n])]_vars

\* ------------------------------------------------------------------ C25
\* The handleTxCommit calls of a node that are waiting in future.Error()
\* for transaction id.
CommitsInFlight(n, id) == {r \in pending[n] : r.id = id}

\* C25: every write staged in a transaction with a 200 answer is part of
\* the TX_COMMIT command built for it: while a commit of the transaction
\* is in flight, the write-set the registry holds for it is the beginning
\* of the write_set of the submitted command.
C25_AcknowledgedStageIsCommitted ==
    \A n \in Nodes : \A id \in TxIds : \A r \in CommitsInFlight(n, id) :
        LET staged == txns[n][id].WriteSet
            sent   == WriteSetOf(raftLog[r.index])
        IN  /\ Len(staged) <= Len(sent)
            /\ \A i \in 1..Len(staged) : staged[i] = sent[i]

\* ------------------------------------------------------------------ C26
\* C26: the write-set of a transaction is submitted at most once: of the
\* commit requests for one id, at most one has proposed a TX_COMMIT entry.
C26_AtMostOneProposal ==
    \A n \in Nodes : \A id \in TxIds :
        Cardinality({r.index : r \in CommitsInFlight(n, id)}) <= 1

\* ------------------------------------------------------------------ C24
\* The stagings of transaction id a node has answered with 200.
StageAcks(n, id) ==
    {i \in 1..Len(calls) : /\ calls[i].op = "http"
                           /\ calls[i].node = n
                           /\ calls[i].method = "TXSET"
                           /\ calls[i].arg = id
                           /\ calls[i].status = 200}

\* C24: no staged write is lost: a registered transaction holds one
\* write-set entry for every acknowledged staging on its id, and each
\* acknowledged write is among the entries, whether or not the requests
\* overlapped.
C24_NoStagedWriteLost ==
    \A n \in Nodes : \A id \in TxIds :
        txns[n][id].live =>
            /\ Len(txns[n][id].WriteSet) >= Cardinality(StageAcks(n, id))
            /\ \A i \in StageAcks(n, id) :
                 \E j \in 1..Len(txns[n][id].WriteSet) :
                     txns[n][id].WriteSet[j] =
                         [Key |-> calls[i].key, Value |-> calls[i].value]

\* ------------------------------------------------------------------ C21
\* The steps that change the write-set of a transaction the registry holds
\* before and after append exactly one entry at its end.
StageWriteAppends ==
    \A n \in Nodes : \A id \in TxIds :
        ( /\ txns[n][id].live
          /\ txns'[n][id].live
          /\ txns'[n][id].WriteSet # txns[n][id].WriteSet )
        => /\ Len(txns'[n][id].WriteSet) = Len(txns[n][id].WriteSet) + 1
           /\ SubSeq(txns'[n][id].WriteSet, 1, Len(txns[n][id].WriteSet))
                 = txns[n][id].WriteSet

\* The entries of a write-set that no later entry of the same key follows.
LastEntries(ws) ==
    {i \in 1..Len(ws) : \A j \in (i + 1)..Len(ws) : ws[j].Key # ws[i].Key}

C22_StagingLeavesStoreAndWal ==
    [][\A n \in Nodes :
         /\ ( txns'[n] # txns[n] /\ pc'[n] = pc[n] )
            => /\ raftLog' = raftLog
               /\ store'[n] = store[n]
               /\ wal'[n] = wal[n]
               /\ walTorn'[n] = walTorn[n]
               /\ \A k \in Keys : StoreGet(store'[n], k) = StoreGet(store[n], k)
         /\ ( Replied /\ LastReply.node = n /\ LastReply.method = "GET" )
            => LET r == StoreGet(store[n], LastReply.arg)
               IN  /\ LastReply.status = IF r.ok THEN 200 ELSE 404
                   /\ LastReply.body = r.value.Value]_vars

\* Key "a" was Set to v1, a transaction that read it staged v2 for it, and
\* a GET of "a" was then answered with v1, which the store still holds at
\* version 1.
C22_Witness ==
    /\ \E id \in TxIds :
         /\ txns[Node1][id].live
         /\ txns[Node1][id].WriteSet = <<[Key |-> "a", Value |-> "v2"]>>
         /\ txns[Node1][id].ReadSet = <<[Key |-> "a", Version |-> 1]>>
    /\ StoreGet(store[Node1], "a") = [value |-> [Value |-> "v1", Version |-> 1], ok |-> TRUE]
    /\ wal[Node1] = <<RaftMarshal([Op |-> "SET", Key |-> "a", Value |-> "v1"])>>
    /\ Len(calls) = 1
    /\ calls[1].method = "GET" /\ calls[1].status = 200 /\ calls[1].body = "v1"

\* ------------------------------------------------------------------ C23
\* The log index of the last write of key k that node n has answered with
\* success, 0 when there is none.
LastAcked(n, k) ==
    LET acks == {i \in 1..Len(calls) :
                    /\ calls[i].op = "http"
                    /\ calls[i].node = n
                    /\ calls[i].method \in {"POST", "DELETE"}
                    /\ calls[i].arg = k
                    /\ calls[i].status \in {200, 201}}
    IN  IF acks = {} THEN 0
        ELSE CHOOSE m \in {calls[i].index : i \in acks} :
                 \A i \in acks : calls[i].index <= m

\* The answer GET gives when the write of this entry is the last one made
\* to its key.
ReadsAs(reply, entry) ==
    IF GetStr(entry, "op") = "SET"
      THEN reply.status = 200 /\ reply.body = GetStr(entry, "value")
      ELSE reply.status = 404

\* C23: every GET of key k a node answers reflects the last write of k the
\* node has answered with success, or a write of k submitted after that
\* one: with no later write, the value of the acknowledged POST, or
\* not-found after an acknowledged DELETE; and a GET of a key no POST has
\* been submitted for is answered not-found.
C23_ReadYourWrites ==
    [][\A n \in Nodes :
         ( Replied /\ LastReply.node = n /\ LastReply.method = "GET" )
         => LET k      == LastReply.arg
                from   == LastAcked(n, k)
                writes == {i \in 1..Len(raftLog) : GetStr(raftLog[i], "key") = k}
            IN  /\ from > 0 =>
                      \E i \in writes : i >= from /\ ReadsAs(LastReply, raftLog[i])
                /\ from = 0 =>
                      \/ LastReply.status = 404
                      \/ \E i \in writes : ReadsAs(LastReply, raftLog[i])]_vars

\* POST /kv/a with v1 was answered 201 and the GET /kv/a after it 200 with
\* v1, no other write of a having been submitted.
C23_Witness ==
    /\ Len(raftLog) = 1
    /\ Len(calls) = 2
    /\ calls[1].method = "POST" /\ calls[1].status = 201 /\ calls[1].arg = "a"
    /\ calls[2].method = "GET" /\ calls[2].status = 200 /\ calls[2].body = "v1"

\* ------------------------------------------------------------------ C27
\* C27: when handleTxCommit returns after it found its transaction,
\* whether raft.Apply failed at once or the wait ended with or without an
\* error, the registry no longer holds that id and holds every other id as
\* before; an answer of not-leader (403) or not-found (404) leaves the
\* registry as it was.
C27_CommitReturnClearsItsTransaction ==
    [][\A n \in Nodes :
         /\ \A id \in TxIds :
              ( \/ HandleTxCommitFail(n, id)
                \/ /\ Replied
                   /\ LastReply.node = n
                   /\ LastReply.method = "COMMIT"
                   /\ LastReply.arg = id
                   /\ LastReply.status \in {200, 500} )
              => /\ ~ManagerGet(txns'[n], id).ok
                 /\ \A other \in TxIds \ {id} : txns'[n][other] = txns[n][other]
         /\ ( /\ Replied
              /\ LastReply.node = n
              /\ LastReply.method = "COMMIT"
              /\ LastReply.status \in {403, 404} )
            => txns' = txns]_vars

\* A commit of t1 was submitted with its staged write, the handler's wait
\* ended with an error, and the registry has no t1 any more.
C27_Witness ==
    /\ Len(calls) = 1
    /\ calls[1].method = "COMMIT" /\ calls[1].status = 500
    /\ Len(raftLog) = 1
    /\ WriteSetOf(raftLog[1]) = <<[Key |-> "a", Value |-> "v1"]>>
    /\ calls[1].arg \in usedIds
    /\ ~ManagerGet(txns[Node1], calls[1].arg).ok

\* ------------------------------------------------------------------ C28
\* C28: every Get that found its key returned a value and a version that
\* one Set call, completed before the Get read, wrote together for that
\* key; a Get that did not find it returned the zero value.
C28_NoPartialWriteObserved ==
    \A i \in 1..Len(calls) :
        calls[i].op = "Get" =>
            IF calls[i].ok
              THEN \E j \in 1..(i - 1) :
                      /\ calls[j].op = "Set"
                      /\ calls[j].key = calls[i].key
                      /\ calls[j].value = calls[i].value
                      /\ calls[j].version = calls[i].version
              ELSE calls[i].value = ZeroValue.Value
                   /\ calls[i].version = ZeroValue.Version

\* A Get of "a" returned (v1, 1) after Set("a", v1) completed, and is
\* followed by a Set("a", v2) that has written its value but not yet its
\* version.
C28_Witness ==
    /\ Len(calls) = 2
    /\ calls[1].op = "Set" /\ calls[1].value = "v1"
    /\ calls[2].op = "Get" /\ calls[2].value = "v1" /\ calls[2].version = 1
    /\ \E r \in Writing : r.phase = "value" /\ r.key = "a" /\ r.value = "v2"
    /\ store[Node1]["a"] = [Value |-> "v2", Version |-> 1]

\* ------------------------------------------------------------------ C29
\* C29: from the start of main until Replay has returned, the node takes no
\* entry from raft, appends nothing to its WAL and answers no request; the
\* step that makes it run is taken with every line of the WAL replayed
\* without error into a store that was empty when main started; and a
\* step that ends the replay with an error leaves the node not running.
C29_ReplayCompleteBeforeServing ==
    [][\A n \in Nodes :
         /\ ( ~Running(n) )
            => /\ applied'[n] = applied[n]
               /\ wal'[n] = wal[n]
               /\ cur'[n] = cur[n]
               /\ ~( Replied /\ LastReply.node = n )
         /\ ( ~Running(n) /\ pc'[n] = "idle" )
            => /\ ~Replay(wal[n], walTorn[n]).err
               /\ store'[n] = Replay(wal[n], walTorn[n]).data
               /\ Len(ReplayDelivered(wal[n])) = Len(wal[n])
         /\ ( ~Running(n) /\ Replay(wal[n], walTorn[n]).err )
            => pc'[n] \notin {"idle", "unmarshalled", "written", "synced"}]_vars

\* The node went down on its second entry with two lines in its WAL, has
\* been started again and runs, its store rebuilt from both lines, and a
\* GET has been answered with the value the store holds.
C29_Witness ==
    /\ pc[Node1] = "idle"
    /\ wal[Node1] = <<RaftMarshal([Op |-> "SET", Key |-> "a", Value |-> "v1"]),
                      RaftMarshal([Op |-> "TX_COMMIT", Key |-> "", Value |-> ""])>>
    /\ applied[Node1] = 2
    /\ store[Node1] = StoreOfLines(wal[Node1])
    /\ "a" \in DOMAIN store[Node1]
    /\ Len(calls) = 1 /\ calls[1].method = "GET" /\ calls[1].body = "v1"

\* ------------------------------------------------------------------ C33
\* C33: every 403 a node that is not the leader has answered, to a POST or
\* DELETE on /kv/<key> and to a commit alike, names the leader raft knows.
C33_NotLeaderRejectionNamesLeader ==
    \A i \in 1..Len(calls) :
        ( calls[i].op = "http" /\ calls[i].status = 403 )
        => /\ calls[i].node # leader
           /\ calls[i].body = leader

\* ------------------------------------------------------------------ C32
\* C32: when FSM.Apply returns from a SET or DELETE of key k, Get gives
\* for every other key what it gave before the dispatch, found or not,
\* value and version; and answering a GET leaves the store as it was.
C32_ApplyChangesOnlyItsKey ==
    [][\A n \in Nodes :
         /\ ( pc[n] = "synced" /\ pc'[n] = "idle" )
            => \A k \in Keys \ {cur[n].Key} :
                  StoreGet(store'[n], k) = StoreGet(store[n], k)
         /\ ( Replied /\ LastReply.node = n /\ LastReply.method = "GET" )
            => store'[n] = store[n]]_vars

\* The log is SET b, DELETE a: after both are applied "b" is still at
\* (v1, 1), "a" is not found, and a GET of "b" has been answered with
\* v1.
C32_Witness ==
    /\ raftLog = <<ServerMarshal(ServerCommand("SET", "b", "v1", <<>>)),
                   ServerMarshal(ServerCommand("DELETE", "a", "", <<>>))>>
    /\ applied[Node1] = 2
    /\ pc[Node1] = "idle"
    /\ StoreGet(store[Node1], "b") = [value |-> [Value |-> "v1", Version |-> 1], ok |-> TRUE]
    /\ ~StoreGet(store[Node1], "a").ok
    /\ Len(calls) = 1
    /\ calls[1].method = "GET" /\ calls[1].arg = "b" /\ calls[1].body = "v1"

\* ------------------------------------------------------------------ C31
\* The records of a file, in order.
RecordsIn(lines) == [i \in 1..Len(lines) |-> Record(lines[i])]

IsPrefix(s, t) == Len(s) <= Len(t) /\ SubSeq(t, 1, Len(s)) = s

\* C31: the records of the WAL before a step are the first records of the
\* WAL after it, whatever the step (an Apply, a restart with its Replay
\* and NewWAL), and file.Write of WriteCommand adds one record at the
\* end, the command marshalled.
C31_WalIsAppendOnly ==
    [][\A n \in Nodes :
         /\ IsPrefix(RecordsIn(wal[n]), RecordsIn(wal'[n]))
         /\ ( pc[n] = "unmarshalled" /\ pc'[n] = "written" )
            => RecordsIn(wal'[n]) = Append(RecordsIn(wal[n]), RaftMarshal(cur[n]))]_vars

====
